---- MODULE Spec2Model ----
(***************************************************************************)
(* A model of the MDANSE job execution and monitoring core:                *)
(*   - IJob.run and its three runners (Src/Framework/Jobs/IJob.py),        *)
(*   - the Status progress tracker (Src/Framework/Status.py),              *)
(*   - the JobController supervisor (Src/GUI/JobControllerPanel.py) with   *)
(*     the process table of PlatformPosix (Src/Core/Platform.py).          *)
(***************************************************************************)
EXTENDS Integers, Sequences, FiniteSets, TLC

(***************************************************************************)
(* Bounds of the model.                                                    *)
(***************************************************************************)
\* initialize() may set numberOfSteps to any value in -NegSteps..MaxSteps
MaxSteps == 10
NegSteps == 1
\* the int32 cells of MolecularTrace.grid wrap; the width is scaled down
GridModulus == 8

\* the clock runs from 0 to MaxTick, in ticks of 1/TicksPerSecond second
MaxTick == 2
TicksPerSecond == 2
\* process ids are 1..MaxPid
MaxPid == 1
MaxWorkers == 2
\* job types are 1..MaxTypes, the random keys of a name 1..MaxKeys
MaxTypes == 2
MaxKeys == 2
\* a Status object driven by its callers: update() is called until
\* currentStep is MaxUpdates, and the clock jumps MaxJumps times
MaxUpdates == 4
MaxJumps == 2
\* the fields of a job's settings are 1..MaxFields
MaxFields == 3

\* rate=0.1 of IJob.run: int(0.1*n) is n divided by 10, truncated
RateDen == 10

Indices == 0..(MaxSteps - 1)
StepChoices == (0 - NegSteps)..MaxSteps
Modes == {"monoprocessor", "multiprocessor", "remote"}
Pids == 1..MaxPid
JobNames == {"job_a", "job_b"}

Max(a, b) == IF a >= b THEN a ELSE b

VARIABLES
    mode,           \* configuration['running_mode']['mode']
    monitored,      \* the status argument of IJob.run
    pc,             \* the position of IJob.run
    hasSteps,       \* whether initialize() set self.numberOfSteps
    numberOfSteps,  \* self.numberOfSteps
    index,          \* the loop variable of the runner
    cur,            \* (idx, x): the result of run_step waiting for combine
    pending,        \* tasks requested from the master and not yet retrieved
    grid,           \* MolecularTrace.grid: a running sum
    outputData,     \* Eccentricity._outputData[...][index]: index-keyed
    status,         \* the fields of Status
    jstate,         \* JobStatus._state
    tmpFile,        \* the snapshot JobStatus keeps in the temporary directory
    stepCount,      \* history: run_step invocations per index
    combineCount,   \* history: combine invocations per index
    lastCall,       \* history: the last of run_step/combine invoked
    raisedIn,       \* history: the hook that raised, or "none"
    stopSeen,       \* history: a runner observed is_stopped()
    stopSeenAt,     \* history: the index of the step completed when it did
    finalizeCalls,  \* history: finalize invocations
    cleanupCalls,   \* history: JobStatus.cleanup invocations
    shutdownCalls,  \* history: master.shutdown invocations
    combinesSinceStop, \* history: how many combine calls were made with the
                    \* stop flag set: "none", "one" or "several"
    workerLost,     \* the remote worker that never returns, and the task it holds
    now,            \* the wall clock, in ticks
    alive,          \* the pids of the live processes
    terminating,    \* the live processes that were sent SIGTERM
    procStart,      \* the tick at which the process holding a pid started
    tempDir,        \* the snapshots in PLATFORM.temporary_files_directory()
    unlinkFails,    \* os.unlink on that directory raises
    runningJobs,    \* JobController._runningJobs
    firstThreadRun, \* JobController._firstThreadRun
    crashed,        \* an exception left JobController.update
    registered,     \* the names of the snapshots in the temporary directory
    lastName,       \* the name IJob.run assigned last: self._name
    registeredThen, \* history: the snapshots present when it was assigned
    clock,          \* datetime.datetime.today(), in seconds
    jumps,          \* the number of times the clock has moved
    trk,            \* a Status object and its time stamps
    lastOp,         \* history: the last call on trk and what it did
    stopCalled,     \* history: trk.stop() has been called
    settings,       \* the dependencies each field of the settings declares
    pcCfg,          \* where the resolution of the settings stands
    configured,     \* the fields whose configure() has run
    configOrder,    \* history: the fields in the order they were configured
    derived,        \* per field, the fields that wrote its values, in order
    poller          \* the update a thread of the supervisor is in the middle of

jobVars == <<mode, monitored, pc, hasSteps, numberOfSteps, index, cur, pending,
             grid, outputData, status, jstate, tmpFile, stepCount, combineCount,
             lastCall, raisedIn, stopSeen, stopSeenAt, finalizeCalls,
             cleanupCalls, shutdownCalls, combinesSinceStop, workerLost>>

supVars == <<now, alive, terminating, procStart, tempDir, unlinkFails, runningJobs,
             firstThreadRun, crashed>>

\* the state of the components next to IJob.run and the supervisor
nameVars == <<registered, lastName, registeredThen>>

\* a Status object with the wall clock its methods read
trackVars == <<clock, jumps, trk, lastOp, stopCalled>>

\* the settings of a job and the state of their resolution
cfgVars == <<settings, pcCfg, configured, configOrder, derived>>

\* an update of the supervisor run by a thread, statement by statement
pollVars == <<poller>>

extVars == <<nameVars, trackVars, cfgVars, pollVars>>

vars == <<jobVars, supVars, extVars>>

(***************************************************************************)
(* Status (Src/Framework/Status.py)                                        *)
(***************************************************************************)
StatusInit ==
    [updateStep |-> 1, currentStep |-> 0, nSteps |-> 0, nStepsSet |-> FALSE,
     finished |-> FALSE, stopped |-> FALSE, eta |-> "N/A"]

\* int(rate*nSteps) with rate = 0.1: truncation towards zero
IntRate(n) == IF n >= 0 THEN n \div RateDen ELSE 0 - ((0 - n) \div RateDen)

\* the values the callers of Status.start give to rate: the default None
\* (the QVectors generators) and 0.1 (IJob.run)
NoRate == "None"
JobRate == "0.1"
Rates == {NoRate, JobRate}

\* a start() that would take the number of steps of every call
StatusStartAgain(s, n, rate) ==
    [s EXCEPT !.nSteps = n, !.nStepsSet = TRUE,
              !.updateStep = IF rate = NoRate THEN @ ELSE Max(0, IntRate(n))]

\* Status.start(nSteps, rate)
StatusStart(s, n, rate) ==
    IF s.nStepsSet THEN s
    ELSE [s EXCEPT !.nSteps = n, !.nStepsSet = TRUE,
                   !.updateStep = IF rate = NoRate THEN @
                                  ELSE Max(0, IntRate(n))]

\* whether Status.start goes on to call start_status()
StartPublishes(s) == ~s.nStepsSet

\* Status.stop()
StatusStop(s) == [s EXCEPT !.eta = "N/A", !.stopped = TRUE]

\* a finish() that would clear the stop flag
StatusFinishRestarts(s) == [s EXCEPT !.finished = TRUE, !.stopped = FALSE]

\* Status.finish()
StatusFinish(s) == [s EXCEPT !.finished = TRUE]

\* an update() that would refresh on every call
RecomputesAlways(s, force, late) == TRUE

\* the condition of line 152, on the incremented currentStep; late stands for
\* more than 10 seconds having passed since the last refresh
Recomputes(s, force, late) ==
    force \/ (s.currentStep % s.updateStep = 0) \/ late

\* Status.update(force)
StatusUpdate(s, force, late) ==
    IF s.updateStep = 0 THEN s
    ELSE LET s1 == [s EXCEPT !.currentStep = @ + 1]
         IN  IF Recomputes(s1, force, late)
             THEN [s1 EXCEPT !.eta = IF s1.nStepsSet THEN "computed" ELSE @]
             ELSE s1

\* whether Status.update(force) goes on to call update_status()
UpdatePublishes(s, force, late) ==
    /\ s.updateStep # 0
    /\ Recomputes([s EXCEPT !.currentStep = @ + 1], force, late)

(***************************************************************************)
(* JobStatus (MDANSE.Framework.Jobs.JobStatus): the Status subclass that   *)
(* keeps the Monitor record, by the specification's description of that    *)
(* record.                                                                 *)
(***************************************************************************)
NoFile == [exists |-> FALSE, state |-> "none", traceback |-> FALSE]

JobStateInit == [state |-> "running", traceback |-> FALSE]

\* save_status: the record is written to the job's snapshot
SaveStatus(js) == [exists |-> TRUE, state |-> js.state, traceback |-> js.traceback]

\* cleanup: the job reports stopped
CleanupState(js) == [js EXCEPT !.state = "stopped"]

(***************************************************************************)
(* The job's hooks                                                         *)
(***************************************************************************)
\* run_step(index) returns (index, x); x is opaque to the core
StepValue(i) == i + 1

RunStepResult(i) == <<i, StepValue(i)>>

\* a combine that stores the step's grid instead of adding it
GridAddAssign(g, x) == x % GridModulus

\* MolecularTrace.combine: numpy.add(self.grid, x, self.grid) on int32 cells
GridAdd(g, x) == (g + x) % GridModulus

\* Eccentricity.combine: self._outputData[...][index] = x
OutputStore(o, idx, x) == [o EXCEPT ![idx] = x]

\* the combined output of the serial runner on n steps
RECURSIVE SerialGrid(_)
SerialGrid(n) == IF n <= 0 THEN 0 ELSE GridAdd(SerialGrid(n - 1), StepValue(n - 1))

SerialOutput(n) == [i \in Indices |-> IF i < n THEN StepValue(i) ELSE 0]

(***************************************************************************)
(* JobError.__init__ (IJob.py 37-65)                                       *)
(***************************************************************************)
NoWorkerLost == [lost |-> FALSE, holds |-> {}]

JobErrorState(js) == [js EXCEPT !.state = "aborted", !.traceback = TRUE]

JobErrorInit ==
    IF monitored
    THEN /\ jstate' = JobErrorState(jstate)
         /\ status' = StatusUpdate(status, TRUE, FALSE)
         /\ tmpFile' = IF UpdatePublishes(status, TRUE, FALSE)
                       THEN SaveStatus(JobErrorState(jstate)) ELSE tmpFile
    ELSE UNCHANGED <<jstate, status, tmpFile>>

(***************************************************************************)
(* IJob.run (IJob.py 290-326)                                              *)
(***************************************************************************)
JobInit ==
    /\ mode \in Modes
    /\ monitored \in BOOLEAN
    /\ pc = "idle"
    /\ hasSteps = FALSE
    /\ numberOfSteps = 0
    /\ index = 0
    /\ cur = <<0, 0>>
    /\ pending = {}
    /\ grid = 0
    /\ outputData = [i \in Indices |-> 0]
    /\ status = StatusInit
    /\ jstate = JobStateInit
    /\ tmpFile = NoFile
    /\ stepCount = [i \in Indices |-> 0]
    /\ combineCount = [i \in Indices |-> 0]
    /\ lastCall = <<"none", 0>>
    /\ raisedIn = "none"
    /\ stopSeen = FALSE
    /\ stopSeenAt = 0
    /\ finalizeCalls = 0
    /\ cleanupCalls = 0
    /\ shutdownCalls = 0
    /\ combinesSinceStop = "none"
    /\ workerLost = NoWorkerLost

\* the part of the state the hooks and the runners leave to Status/JobStatus
tracker == <<status, jstate, tmpFile>>
output == <<grid, outputData>>
calls == <<stepCount, combineCount, lastCall, combinesSinceStop>>
config == <<mode, monitored, hasSteps, numberOfSteps>>
stopHist == <<stopSeen, stopSeenAt, cleanupCalls>>

\* a check that lets an unset or zero numberOfSteps through
InvalidStepsStrict(has, n) == has /\ n < 0

\* line 310: getattr(self,'numberOfSteps',0) <= 0
InvalidSteps(has, n) == ~has \/ n <= 0

\* line 318: IJob._runner[mode](self)
RunnerEntry(m, n) ==
    CASE m = "monoprocessor" -> IF 0 < n THEN "mono_step" ELSE "finalize"
      [] m = "multiprocessor" -> "multi_setup"
      [] m = "remote" -> "remote_setup"

\* a loop that skips every other index
NextIndexSkip(i) == i + 2

\* for index in range(self.numberOfSteps)
NextIndex(i) == i + 1

\* lines 295-302: the name, the JobStatus and setup(parameters)
RunBegin ==
    /\ pc = "idle"
    /\ \E ok \in BOOLEAN:
         /\ pc' = IF ok THEN "initialize" ELSE "except"
         /\ raisedIn' = IF ok THEN "none" ELSE "setup"
    /\ tmpFile' = IF monitored THEN SaveStatus(JobStateInit) ELSE tmpFile
    /\ UNCHANGED <<supVars, extVars, config, index, cur, pending, output, status, jstate, calls,
                   stopHist, finalizeCalls, shutdownCalls, workerLost>>

\* line 304: initialize() raises, returns without setting numberOfSteps, or
\* sets it
Initialize ==
    /\ pc = "initialize"
    /\ \/ /\ pc' = "except"
          /\ raisedIn' = "initialize"
          /\ UNCHANGED <<hasSteps, numberOfSteps>>
       \/ /\ pc' = "start_status"
          /\ UNCHANGED <<raisedIn, hasSteps, numberOfSteps>>
       \/ \E n \in StepChoices:
            /\ hasSteps' = TRUE
            /\ numberOfSteps' = n
            /\ pc' = "start_status"
            /\ UNCHANGED raisedIn
    /\ UNCHANGED <<supVars, extVars, mode, monitored, index, cur, pending, output, tracker, calls,
                   stopHist, finalizeCalls, shutdownCalls, workerLost>>

\* lines 306-308: reading self.numberOfSteps raises AttributeError when unset
StartStatus ==
    /\ pc = "start_status"
    /\ IF monitored /\ ~hasSteps
       THEN /\ pc' = "except"
            /\ raisedIn' = "start"
            /\ UNCHANGED <<status, tmpFile>>
       ELSE /\ pc' = "check_steps"
            /\ UNCHANGED raisedIn
            /\ IF monitored
               THEN /\ status' = StatusStart(status, numberOfSteps, JobRate)
                    /\ tmpFile' = IF StartPublishes(status)
                                  THEN SaveStatus(jstate) ELSE tmpFile
               ELSE UNCHANGED <<status, tmpFile>>
    /\ UNCHANGED <<supVars, extVars, config, index, cur, pending, output, jstate, calls,
                   stopHist, finalizeCalls, shutdownCalls, workerLost>>

\* lines 310-318: the JobError raised at 311 is caught by the except of 324
CheckSteps ==
    /\ pc = "check_steps"
    /\ IF InvalidSteps(hasSteps, numberOfSteps)
       THEN /\ JobErrorInit
            /\ pc' = "except"
            /\ raisedIn' = "steps"
       ELSE /\ pc' = RunnerEntry(mode, numberOfSteps)
            /\ UNCHANGED <<tracker, raisedIn>>
    /\ index' = 0
    /\ UNCHANGED <<supVars, extVars, config, cur, pending, output, calls, stopHist,
                   finalizeCalls, shutdownCalls, workerLost>>

\* idx, x = self.run_step(index)
RunStepCall(i, next) ==
    /\ stepCount' = [stepCount EXCEPT ![i] = @ + 1]
    /\ lastCall' = <<"run_step", i>>
    /\ \E ok \in BOOLEAN:
         IF ok
         THEN /\ cur' = RunStepResult(i)
              /\ pc' = next
              /\ UNCHANGED raisedIn
         ELSE /\ pc' = "except"
              /\ raisedIn' = "run_step"
              /\ UNCHANGED cur
    /\ UNCHANGED <<combineCount, combinesSinceStop>>

\* one more combine call with the stop flag set
OneMore(c) == IF c = "none" THEN "one" ELSE "several"

\* self.combine(idx, x)
CombineCall(next) ==
    /\ combineCount' = [combineCount EXCEPT ![cur[1]] = @ + 1]
    /\ lastCall' = <<"combine", cur[1]>>
    /\ combinesSinceStop' = IF monitored /\ status.stopped
                            THEN OneMore(combinesSinceStop)
                            ELSE combinesSinceStop
    /\ \E ok \in BOOLEAN:
         IF ok
         THEN /\ grid' = GridAdd(grid, cur[2])
              /\ outputData' = OutputStore(outputData, cur[1], cur[2])
              /\ pc' = next
              /\ UNCHANGED raisedIn
         ELSE /\ pc' = "except"
              /\ raisedIn' = "combine"
              /\ UNCHANGED output
    /\ UNCHANGED stepCount

\* self._status.cleanup() once is_stopped() was seen
StopObserved ==
    /\ cleanupCalls' = cleanupCalls + 1
    /\ jstate' = CleanupState(jstate)
    /\ tmpFile' = SaveStatus(CleanupState(jstate))
    /\ stopSeen' = TRUE
    /\ stopSeenAt' = index
    /\ UNCHANGED status

\* self._status.update()
StepCounted ==
    /\ \E late \in BOOLEAN:
         /\ status' = StatusUpdate(status, FALSE, late)
         /\ tmpFile' = IF UpdatePublishes(status, FALSE, late)
                       THEN SaveStatus(jstate) ELSE tmpFile
    /\ UNCHANGED <<jstate, stopHist>>

(***************************************************************************)
(* IJob._run_monoprocessor (IJob.py 220-231)                               *)
(***************************************************************************)
MonoRunStep ==
    /\ pc = "mono_step"
    /\ RunStepCall(index, "mono_combine")
    /\ UNCHANGED <<supVars, extVars, config, index, pending, output, tracker, stopHist,
                   finalizeCalls, shutdownCalls, workerLost>>

MonoCombine ==
    /\ pc = "mono_combine"
    /\ CombineCall("mono_check")
    /\ UNCHANGED <<supVars, extVars, config, index, cur, pending, tracker, stopHist,
                   finalizeCalls, shutdownCalls, workerLost>>

MonoCheck ==
    /\ pc = "mono_check"
    /\ IF monitored /\ status.stopped
       THEN /\ StopObserved
            /\ pc' = "finalize"
            /\ UNCHANGED index
       ELSE /\ IF monitored THEN StepCounted ELSE UNCHANGED <<tracker, stopHist>>
            /\ index' = NextIndex(index)
            /\ pc' = IF NextIndex(index) < numberOfSteps
                     THEN "mono_step" ELSE "finalize"
    /\ UNCHANGED <<supVars, extVars, config, cur, pending, output, calls, raisedIn,
                   finalizeCalls, shutdownCalls, workerLost>>

(***************************************************************************)
(* The master of MDANSE.DistributedComputing.MasterSlave, by its contract: *)
(* requestTask queues one task; retrieveResult hands back the result of    *)
(* one requested task not yet retrieved, in the order of completion.       *)
(***************************************************************************)
RequestTasks(n) == {i \in Indices : i < n}

\* the workers take the tasks in the order of the requests, one task each:
\* the next result is that of one of the MaxWorkers earliest tasks not
\* retrieved yet
Retrievable(p) == {i \in p : Cardinality({j \in p : j < i}) < MaxWorkers}

\* the remote master bounds each wait by its timeout: a task whose worker
\* never returns is handed to another worker, or the wait fails
LostWorkerOutcomes == {"redispatched", "unavailable"}

\* a worker stops answering while it holds one of the requested tasks
WorkerLost ==
    /\ pc \in {"remote_retrieve", "remote_combine"}
    /\ ~workerLost.lost
    /\ \E i \in Retrievable(pending) :
         workerLost' = [lost |-> TRUE, holds |-> {i}]
    /\ UNCHANGED <<supVars, extVars, config, pc, index, cur, pending, output, tracker,
                   calls, raisedIn, stopHist, finalizeCalls, shutdownCalls>>

(***************************************************************************)
(* IJob._run_multiprocessor (IJob.py 233-259)                              *)
(***************************************************************************)
MultiSetup ==
    /\ pc = "multi_setup"
    /\ pending' = RequestTasks(numberOfSteps)
    /\ pc' = IF 0 < numberOfSteps THEN "multi_retrieve" ELSE "multi_shutdown"
    /\ UNCHANGED <<supVars, extVars, config, index, cur, output, tracker, calls, raisedIn,
                   stopHist, finalizeCalls, shutdownCalls, workerLost>>

MultiRetrieve ==
    /\ pc = "multi_retrieve"
    /\ \E i \in Retrievable(pending):
         /\ pending' = pending \ {i}
         /\ RunStepCall(i, "multi_combine")
    /\ UNCHANGED <<supVars, extVars, config, index, output, tracker, stopHist,
                   finalizeCalls, shutdownCalls, workerLost>>

MultiCombine ==
    /\ pc = "multi_combine"
    /\ CombineCall("multi_check")
    /\ UNCHANGED <<supVars, extVars, config, index, cur, pending, tracker, stopHist,
                   finalizeCalls, shutdownCalls, workerLost>>

MultiCheck ==
    /\ pc = "multi_check"
    /\ IF monitored /\ status.stopped
       THEN /\ StopObserved
            /\ pc' = "multi_shutdown"
            /\ UNCHANGED index
       ELSE /\ IF monitored THEN StepCounted ELSE UNCHANGED <<tracker, stopHist>>
            /\ index' = NextIndex(index)
            /\ pc' = IF NextIndex(index) < numberOfSteps
                     THEN "multi_retrieve" ELSE "multi_shutdown"
    /\ UNCHANGED <<supVars, extVars, config, cur, pending, output, calls, raisedIn,
                   finalizeCalls, shutdownCalls, workerLost>>

MultiShutdown ==
    /\ pc = "multi_shutdown"
    /\ shutdownCalls' = shutdownCalls + 1
    /\ pc' = "finalize"
    /\ UNCHANGED <<supVars, extVars, config, index, cur, pending, output, tracker, calls,
                   raisedIn, stopHist, finalizeCalls, workerLost>>

(***************************************************************************)
(* IJob._run_remote (IJob.py 261-286)                                      *)
(***************************************************************************)
\* a second loop that runs over range(numberOfSteps - 1)
RemoteLoopTargetShort(i, n) ==
    IF i + 1 < n THEN "remote_retrieve" ELSE "remote_check"

RemoteLoopTarget(i, n) == IF i < n THEN "remote_retrieve" ELSE "remote_check"

RemoteSetup ==
    /\ pc = "remote_setup"
    /\ IF monitored
       THEN /\ status' = StatusStart(status, numberOfSteps, JobRate)
            /\ tmpFile' = IF StartPublishes(status)
                          THEN SaveStatus(jstate) ELSE tmpFile
       ELSE UNCHANGED <<status, tmpFile>>
    /\ pending' = RequestTasks(numberOfSteps)
    /\ pc' = RemoteLoopTarget(0, numberOfSteps)
    /\ UNCHANGED <<supVars, extVars, config, index, cur, output, jstate, calls, raisedIn,
                   stopHist, finalizeCalls, shutdownCalls, workerLost>>

\* _, _, (idx, x) = tasks.retrieveResult("run_step"): a result arrived
RemoteRetrieve ==
    /\ pc = "remote_retrieve"
    /\ \E i \in Retrievable(pending \ workerLost.holds):
         /\ pending' = pending \ {i}
         /\ RunStepCall(i, "remote_combine")
    /\ UNCHANGED <<supVars, extVars, config, index, output, tracker, stopHist,
                   finalizeCalls, shutdownCalls, workerLost>>

\* the wait of retrieveResult runs into the timeout of the master
RemoteTimeout ==
    /\ pc = "remote_retrieve"
    /\ workerLost.holds # {}
    /\ \E o \in LostWorkerOutcomes:
         IF o = "redispatched"
         THEN /\ workerLost' = [workerLost EXCEPT !.holds = {}]
              /\ UNCHANGED <<pc, raisedIn>>
         ELSE /\ pc' = "except"
              /\ raisedIn' = "worker"
              /\ UNCHANGED workerLost
    /\ UNCHANGED <<supVars, extVars, config, index, cur, pending, output, tracker, calls,
                   stopHist, finalizeCalls, shutdownCalls>>

RemoteCombine ==
    /\ pc = "remote_combine"
    /\ CombineCall(RemoteLoopTarget(NextIndex(index), numberOfSteps))
    /\ index' = NextIndex(index)
    /\ UNCHANGED <<supVars, extVars, config, cur, pending, tracker, stopHist,
                   finalizeCalls, shutdownCalls, workerLost>>

RemoteCheck ==
    /\ pc = "remote_check"
    /\ IF monitored
       THEN IF status.stopped THEN StopObserved ELSE StepCounted
       ELSE UNCHANGED <<tracker, stopHist>>
    /\ pc' = "finalize"
    /\ UNCHANGED <<supVars, extVars, config, index, cur, pending, output, calls, raisedIn,
                   finalizeCalls, shutdownCalls, workerLost>>

(***************************************************************************)
(* IJob.run, after the runner returned (IJob.py 320-326)                   *)
(***************************************************************************)
\* a finalize whose failure is swallowed
AfterFinalizeSwallow(ok) == "finish"

\* line 320 inside the try of line 294
AfterFinalize(ok) == IF ok THEN "finish" ELSE "except"

Finalize ==
    /\ pc = "finalize"
    /\ finalizeCalls' = finalizeCalls + 1
    /\ \E ok \in BOOLEAN:
         /\ pc' = AfterFinalize(ok)
         /\ raisedIn' = IF ok THEN raisedIn ELSE "finalize"
    /\ UNCHANGED <<supVars, extVars, config, index, cur, pending, output, tracker, calls,
                   stopHist, shutdownCalls, workerLost>>

\* lines 322-323; finish_status removes the snapshot
Finish ==
    /\ pc = "finish"
    /\ IF monitored
       THEN /\ status' = StatusFinish(status)
            /\ tmpFile' = NoFile
       ELSE UNCHANGED <<status, tmpFile>>
    /\ pc' = "done"
    /\ UNCHANGED <<supVars, extVars, config, index, cur, pending, output, jstate, calls,
                   raisedIn, stopHist, finalizeCalls, shutdownCalls, workerLost>>

\* lines 324-326: raise JobError(self, tb)
Except ==
    /\ pc = "except"
    /\ JobErrorInit
    /\ pc' = "raised"
    /\ UNCHANGED <<supVars, extVars, config, index, cur, pending, output, calls, raisedIn,
                   stopHist, finalizeCalls, shutdownCalls, workerLost>>

\* another thread calls Status.stop() while the job runs
Stop ==
    /\ monitored
    /\ pc \notin {"idle", "done", "raised"}
    /\ status' = StatusStop(status)
    /\ UNCHANGED <<supVars, extVars, config, pc, index, cur, pending, output, jstate, tmpFile,
                   calls, raisedIn, stopHist, finalizeCalls, shutdownCalls,
                   workerLost>>

RunCommon ==
    \/ RunBegin
    \/ Initialize
    \/ StartStatus
    \/ CheckSteps
    \/ Finalize
    \/ Finish
    \/ Except

Mono ==
    \/ MonoRunStep
    \/ MonoCombine
    \/ MonoCheck

Multi ==
    \/ MultiSetup
    \/ MultiRetrieve
    \/ MultiCombine
    \/ MultiCheck
    \/ MultiShutdown

Remote ==
    \/ RemoteSetup
    \/ RemoteRetrieve
    \/ RemoteTimeout
    \/ RemoteCombine
    \/ RemoteCheck

JobNext == RunCommon \/ Mono \/ Multi \/ Remote

(***************************************************************************)
(* The process table (Src/Core/Platform.py)                                *)
(***************************************************************************)
\* the etime column of ps: whole seconds since the process started
PsEtime(t, started) == (t - started) \div TicksPerSecond

\* PlatformPosix.etime_to_ctime: today() - etime, printed to the second
EtimeToCtime(t, etime) == (t - etime * TicksPerSecond) \div TicksPerSecond

\* PlatformPosix.get_processes_info: pid -> start time
ProcessesInfoOf(procs) ==
    [p \in procs |-> EtimeToCtime(now, PsEtime(now, procStart[p]))]

ProcessesInfo == ProcessesInfoOf(alive)

(***************************************************************************)
(* JobController (Src/GUI/JobControllerPanel.py)                           *)
(***************************************************************************)
NoSnapshot == [exists |-> FALSE, readable |-> FALSE, pid |-> 0, start |-> 0,
               state |-> "none"]

NoEntry == [known |-> FALSE, pid |-> 0, state |-> "none"]

\* the key of _runningJobs is info['name']; glob yields full paths
Key(n) == <<n>>

GlobPath(n) == <<"temporary_files", n>>

\* line 117: jobs = glob(os.path.join(temporary_files_directory(), '*'))
Glob(dir) == {GlobPath(n) : n \in {m \in JobNames : dir[m].exists}}

\* lines 138-145: the file can be opened and unpickled
Readable(dir) == {n \in JobNames : dir[n].exists /\ dir[n].readable}

\* a comparison that takes a job started in the second of its process for
\* a recycled pid
IsRunningStrict(info, pids) ==
    /\ info.pid \in DOMAIN pids
    /\ info.start > pids[info.pid]

\* lines 153-160
IsRunning(info, pids) ==
    /\ info.pid \in DOMAIN pids
    /\ info.start >= pids[info.pid]

\* lines 162-163
Classify(info, pids) == IF IsRunning(info, pids) THEN info.state ELSE "aborted"

\* line 170: self._runningJobs[name] = info
Entry(info, pids) == [known |-> TRUE, pid |-> info.pid, state |-> Classify(info, pids)]

\* lines 120-132: the jobs known from the last poll and not found in jobs
MarkFinished(view, dir) ==
    [n \in JobNames |->
        IF view[n].known /\ view[n].state # "finished" /\ Key(n) \notin Glob(dir)
        THEN [view[n] EXCEPT !.state = "finished"]
        ELSE view[n]]

\* a second loop that loads only the snapshots of the jobs not tracked yet
ReloadNew(view, dir, pids, names) ==
    [n \in JobNames |-> IF n \in names /\ ~view[n].known
                        THEN Entry(dir[n], pids) ELSE view[n]]

\* lines 135-170 when no snapshot is handed to kill_job
Reload(view, dir, pids, names) ==
    [n \in JobNames |-> IF n \in names THEN Entry(dir[n], pids) ELSE view[n]]

\* an update that hands the aborted snapshots to kill_job at every poll
StaleAlways(dir, pids, first) ==
    {n \in Readable(dir) : Classify(dir[n], pids) = "aborted"}

\* line 166: the snapshots the first poll hands to kill_job
Stale(dir, pids, first) ==
    IF first THEN {n \in Readable(dir) : Classify(dir[n], pids) = "aborted"} ELSE {}

\* a kill_job that leaves the entry in _runningJobs
ForgetNone(view, names) == view

\* del self._runningJobs[info["name"]]
Forget(view, names) == [n \in JobNames |-> IF n \in names THEN NoEntry ELSE view[n]]

Unlink(dir, names) == [n \in JobNames |-> IF n \in names THEN NoSnapshot ELSE dir[n]]

\* JobController.update, with the kill_job calls it makes and the update
\* calls those make in turn.  When a stale snapshot cannot be unlinked,
\* kill_job and update call each other until the recursion limit is hit;
\* the snapshots before it in glob order have been loaded by then.
UpdateOutcomes(view, dir, first, pids) ==
    LET stale == Stale(dir, pids, first)
        fresh == Readable(dir) \ stale
        marked == MarkFinished(view, dir)
    IN  IF stale = {}
        THEN {[view |-> Reload(marked, dir, pids, fresh), dir |-> dir,
               first |-> FALSE, crashed |-> FALSE]}
        ELSE IF ~unlinkFails
        THEN {[view |-> Reload(Forget(marked, stale), dir, pids, fresh),
               dir |-> Unlink(dir, stale), first |-> FALSE, crashed |-> FALSE]}
        ELSE {[view |-> Reload(Forget(marked, stale), dir, pids, seen),
               dir |-> dir, first |-> first, crashed |-> TRUE] :
                 seen \in SUBSET fresh}

\* JobController.run: the poll of the controller thread
Poll ==
    /\ ~crashed
    /\ \E r \in UpdateOutcomes(runningJobs, tempDir, firstThreadRun, ProcessesInfo):
         /\ runningJobs' = r.view
         /\ tempDir' = r.dir
         /\ firstThreadRun' = r.first
         /\ crashed' = r.crashed
    /\ UNCHANGED <<jobVars, extVars, now, alive, terminating, procStart, unlinkFails>>

\* PlatformPosix.kill_process: SIGTERM to whatever process holds the pid; the
\* error raised when no process holds it is swallowed by kill_job
Signalled(info) == IF info.state = "running" THEN {info.pid} \cap alive ELSE {}

\* JobController.kill_job(info), called by on_kill_job with the entry of n.
\* The signalled process has left the process table either when the update
\* at the end of kill_job reads it, or later (ProcessExits); until then it is
\* terminating.
KillJob(n) ==
    /\ runningJobs[n].known
    /\ \E gone \in SUBSET Signalled(runningJobs[n]) :
         /\ alive' = alive \ gone
         /\ terminating' = (terminating \cup Signalled(runningJobs[n])) \ gone
         /\ procStart' = [p \in Pids |-> IF p \in gone THEN 0 ELSE procStart[p]]
         /\ \E r \in UpdateOutcomes(Forget(runningJobs, {n}),
                                     IF unlinkFails THEN tempDir
                                     ELSE Unlink(tempDir, {n}),
                                     firstThreadRun,
                                     ProcessesInfoOf(alive \ gone)):
              /\ runningJobs' = r.view
              /\ tempDir' = r.dir
              /\ firstThreadRun' = r.first
              /\ crashed' = (crashed \/ r.crashed)
    /\ UNCHANGED <<jobVars, extVars, now, unlinkFails>>

(***************************************************************************)
(* The environment of the supervisor: the clock, the processes and the     *)
(* jobs that write the snapshots                                           *)
(***************************************************************************)
Tick ==
    /\ now < MaxTick
    /\ now' = now + 1
    /\ UNCHANGED <<jobVars, extVars, alive, terminating, procStart, tempDir, unlinkFails, runningJobs,
                   firstThreadRun, crashed>>

ProcessStarts(p) ==
    /\ p \notin alive
    /\ alive' = alive \cup {p}
    /\ UNCHANGED terminating
    /\ procStart' = [procStart EXCEPT ![p] = now]
    /\ UNCHANGED <<jobVars, extVars, now, tempDir, unlinkFails, runningJobs, firstThreadRun,
                   crashed>>

ProcessExits(p) ==
    /\ p \in alive
    /\ alive' = alive \ {p}
    /\ terminating' = terminating \ {p}
    /\ procStart' = [procStart EXCEPT ![p] = 0]
    /\ UNCHANGED <<jobVars, extVars, now, tempDir, unlinkFails, runningJobs,
                   firstThreadRun, crashed>>

\* IJob.define_unique_name: the name of a job holds the pid of its process
JobPid(n) == IF n = "job_a" THEN 1 ELSE MaxPid

\* a job run by process p registers: its snapshot holds the pid and the
\* start time printed to the second
JobRegisters(n, p) ==
    /\ p = JobPid(n)
    /\ p \in alive \ terminating
    /\ ~tempDir[n].exists
    /\ tempDir' = [tempDir EXCEPT ![n] =
                     [exists |-> TRUE, readable |-> TRUE, pid |-> p,
                      start |-> now \div TicksPerSecond, state |-> "running"]]
    /\ UNCHANGED <<jobVars, extVars, now, alive, terminating, procStart, unlinkFails, runningJobs,
                   firstThreadRun, crashed>>

\* the job rewrites its snapshot: half-written, then complete, possibly with
\* the state JobError set
JobWrites(n) ==
    /\ tempDir[n].exists
    /\ tempDir[n].pid \in alive \ terminating
    /\ \/ tempDir' = [tempDir EXCEPT ![n].readable = ~tempDir[n].readable]
       \/ /\ tempDir[n].readable
          /\ tempDir[n].state = "running"
          /\ tempDir' = [tempDir EXCEPT ![n].state = "aborted"]
    /\ UNCHANGED <<jobVars, extVars, now, alive, terminating, procStart, unlinkFails, runningJobs,
                   firstThreadRun, crashed>>

\* the job finishes and removes its snapshot
JobUnregisters(n) ==
    /\ tempDir[n].exists
    /\ tempDir[n].pid \in alive \ terminating
    /\ tempDir' = [tempDir EXCEPT ![n] = NoSnapshot]
    /\ UNCHANGED <<jobVars, extVars, now, alive, terminating, procStart, unlinkFails, runningJobs,
                   firstThreadRun, crashed>>

DirectoryLocks ==
    /\ unlinkFails' = ~unlinkFails
    /\ UNCHANGED <<jobVars, extVars, now, alive, terminating, procStart, tempDir, runningJobs,
                   firstThreadRun, crashed>>

SupInit ==
    /\ now = 0
    /\ alive = {}
    /\ terminating = {}
    /\ procStart = [p \in Pids |-> 0]
    /\ tempDir = [n \in JobNames |-> NoSnapshot]
    /\ unlinkFails = FALSE
    /\ runningJobs = [n \in JobNames |-> NoEntry]
    /\ firstThreadRun = TRUE
    /\ crashed = FALSE

SupEnv ==
    \/ Tick
    \/ DirectoryLocks
    \/ \E p \in Pids : ProcessStarts(p)
    \/ \E p \in Pids : ProcessExits(p)
    \/ \E n \in JobNames, p \in Pids : JobRegisters(n, p)
    \/ \E n \in JobNames : JobWrites(n)
    \/ \E n \in JobNames : JobUnregisters(n)

SupNext ==
    \/ Poll
    \/ \E n \in JobNames : KillJob(n)
    \/ SupEnv

(***************************************************************************)
(* The name of a job (IJob.py 71-112 and 295-300)                          *)
(***************************************************************************)
JobTypes == 1..MaxTypes
Keys == 1..MaxKeys

\* key_generator(6, prefix): prefix is username[:4] and the pid; the user is
\* the same for all the processes of the model
UniqueName(p, key) == <<p, key>>

\* line 297: "%s_%s" % (self._type, IJob.define_unique_name())
JobName(ty, unique) == <<ty>> \o unique

\* line 102: the basenames of the files of the temporary directory; a
\* snapshot is kept under the name of its job
RegisteredJobs(files) == files

\* lines 104-110: the keys the loop of define_unique_name stops on
AcceptedKeys(p, files) ==
    {key \in Keys : UniqueName(p, key) \notin RegisteredJobs(files)}

NameInit ==
    /\ registered = {}
    /\ lastName = <<>>
    /\ registeredThen = {}

\* lines 297-300 of IJob.run in process p for a job of type ty: the name, and
\* the JobStatus that writes the snapshot of a monitored job
DefineName(ty, p, withStatus) ==
    /\ \E key \in AcceptedKeys(p, registered) :
         LET name == JobName(ty, UniqueName(p, key))
         IN  /\ lastName' = name
             /\ registeredThen' = registered
             /\ registered' = IF withStatus THEN registered \cup {name}
                                ELSE registered
    /\ UNCHANGED <<jobVars, supVars, pollVars, trackVars, cfgVars>>

\* a job finishes: its snapshot is removed
NameReleased(name) ==
    /\ name \in registered
    /\ registered' = registered \ {name}
    /\ UNCHANGED <<jobVars, supVars, pollVars, trackVars, cfgVars, lastName, registeredThen>>

NameNext ==
    \/ \E ty \in JobTypes, p \in Pids, withStatus \in BOOLEAN :
         DefineName(ty, p, withStatus)
    \/ \E name \in registered : NameReleased(name)

(***************************************************************************)
(* A Status object and the clock (Src/Framework/Status.py).  Time stamps   *)
(* are whole seconds.                                                      *)
(***************************************************************************)
\* the number of steps the callers start the object with
TrackerSteps == {1, 3, 2 * RateDen}
\* the seconds the clock moves by between two calls
ClockJumps == {1, 11, 16 * 24 * 3600}

\* the lengths of the months that follow datetime(1,1,1)
MonthDays == <<31, 28, 31, 30, 31, 30, 31, 31, 30, 31, 30, 31>>

RECURSIVE DayInMonth(_, _)
\* the day of the month of the date d days after the first of month m
DayInMonth(d, m) ==
    IF d < MonthDays[m] THEN d + 1
    ELSE DayInMonth(d - MonthDays[m], (m % 12) + 1)

\* convert_duration(seconds), seconds >= 0:
\* d = datetime(1,1,1) + timedelta(seconds); (d.day-1, d.hour, d.minute, d.second)
ConvertDuration(seconds) ==
    <<DayInMonth(seconds \div (24 * 3600), 1) - 1,
      (seconds \div 3600) % 24,
      (seconds \div 60) % 60,
      seconds % 60>>

\* Status.__init__ at time today
TrackerInit(today) ==
    [s |-> StatusInit, startTime |-> today, deltas |-> <<today>>,
     lastRefresh |-> today, elapsed |-> <<>>, eta |-> <<>>]

\* line 157: the time each counted step took
Durations(t) ==
    [i \in 1..t.s.currentStep |-> t.deltas[i + 1] - t.deltas[i]]

\* the k-th smallest element of the sequence q
KthSmallest(q, k) ==
    CHOOSE v \in {q[i] : i \in DOMAIN q} :
        /\ Cardinality({i \in DOMAIN q : q[i] < v}) < k
        /\ Cardinality({i \in DOMAIN q : q[i] <= v}) >= k

\* twice numpy.median(q): the middle element, or the mean of the two middle
\* elements
Median2(q) ==
    IF Len(q) % 2 = 1 THEN 2 * KthSmallest(q, (Len(q) + 1) \div 2)
    ELSE KthSmallest(q, Len(q) \div 2) + KthSmallest(q, (Len(q) \div 2) + 1)

\* round(v2 / 2): halves go away from zero
RoundHalf(v2) ==
    IF v2 >= 0 THEN (v2 + 1) \div 2 ELSE 0 - (((0 - v2) + 1) \div 2)

\* lines 158-159: round(median(duration) * (nSteps - currentStep))
EtaSeconds(t) ==
    RoundHalf(Median2(Durations(t)) * (t.s.nSteps - t.s.currentStep))

\* line 152, more than 10 seconds after the last refresh
Late(t, today) == today - t.lastRefresh > 10

\* the object after lines 145-149 of update()
Counted(t, force, today) ==
    [t EXCEPT !.s = StatusUpdate(t.s, force, Late(t, today)),
              !.deltas = Append(@, today)]

\* update() reaches line 154
Refreshes(t, force, today) ==
    /\ t.s.updateStep # 0
    /\ Recomputes(Counted(t, force, today).s, force, Late(t, today))

\* line 160: datetime(1,1,1) plus a negative timedelta is an OverflowError
UpdateRaises(t, force, today) ==
    /\ Refreshes(t, force, today)
    /\ t.s.nStepsSet
    /\ EtaSeconds(Counted(t, force, today)) < 0

\* Status.update(force) at time today
TimedUpdate(t, force, today) ==
    LET t1 == Counted(t, force, today)
        t2 == [t1 EXCEPT !.lastRefresh = today]
        t3 == [t2 EXCEPT !.elapsed = ConvertDuration(today - t.startTime)]
    IN  IF t.s.updateStep = 0 THEN t
        ELSE IF ~Refreshes(t, force, today) THEN t1
        ELSE IF ~t.s.nStepsSet THEN t2
        ELSE IF UpdateRaises(t, force, today)
             THEN [t3 EXCEPT !.s = [@ EXCEPT !.eta = t.s.eta]]
        ELSE [t3 EXCEPT !.eta = ConvertDuration(EtaSeconds(t1))]

\* what a call did: whether it went through lines 154-163, whether it called
\* its *_status hook, whether it raised
Call(op, force, refreshed, published, raised) ==
    [op |-> op, force |-> force, refreshed |-> refreshed,
     published |-> published, raised |-> raised]

TrackInit ==
    /\ clock = 0
    /\ jumps = 0
    /\ trk = TrackerInit(0)
    /\ lastOp = Call("init", FALSE, FALSE, FALSE, FALSE)
    /\ stopCalled = FALSE

TrackerStart(n, rate) ==
    /\ trk' = [trk EXCEPT !.s = StatusStart(@, n, rate)]
    /\ lastOp' = Call("start", FALSE, FALSE, StartPublishes(trk.s), FALSE)
    /\ UNCHANGED <<jobVars, supVars, pollVars, nameVars, cfgVars, clock, jumps, stopCalled>>

TrackerUpdate(force) ==
    /\ trk.s.currentStep < MaxUpdates
    /\ trk' = TimedUpdate(trk, force, clock)
    /\ lastOp' = Call("update", force, Refreshes(trk, force, clock),
                      /\ UpdatePublishes(trk.s, force, Late(trk, clock))
                      /\ ~UpdateRaises(trk, force, clock),
                      UpdateRaises(trk, force, clock))
    /\ UNCHANGED <<jobVars, supVars, pollVars, nameVars, cfgVars, clock, jumps, stopCalled>>

TrackerStop ==
    /\ trk' = [trk EXCEPT !.s = StatusStop(@), !.eta = <<>>]
    /\ lastOp' = Call("stop", FALSE, FALSE, TRUE, FALSE)
    /\ stopCalled' = TRUE
    /\ UNCHANGED <<jobVars, supVars, pollVars, nameVars, cfgVars, clock, jumps>>

TrackerFinish ==
    /\ trk' = [trk EXCEPT !.s = StatusFinish(@)]
    /\ lastOp' = Call("finish", FALSE, FALSE, TRUE, FALSE)
    /\ UNCHANGED <<jobVars, supVars, pollVars, nameVars, cfgVars, clock, jumps, stopCalled>>

\* time passes between two calls
ClockJump(d) ==
    /\ jumps < MaxJumps
    /\ clock' = clock + d
    /\ jumps' = jumps + 1
    /\ UNCHANGED <<jobVars, supVars, pollVars, nameVars, cfgVars, trk, lastOp, stopCalled>>

TrackNext ==
    \/ \E n \in TrackerSteps, rate \in Rates : TrackerStart(n, rate)
    \/ \E force \in BOOLEAN : TrackerUpdate(force)
    \/ TrackerStop
    \/ TrackerFinish
    \/ \E d \in ClockJumps : ClockJump(d)

(***************************************************************************)
(* The settings of a job and their resolution (Configurable.setup, called  *)
(* by IJob.run at line 302).  Fields are numbered in declaration order.    *)
(***************************************************************************)
Fields == 1..MaxFields

\* ElasticIncoherentStructureFactor.settings, lines 46-48: atom_selection (1),
\* grouping_level (2) and atom_transmutation (3) with the dependencies they
\* declare on each other; a further field declares none
EISFSettings ==
    [f \in Fields |-> IF f = 2 THEN {1, 3} ELSE IF f = 3 THEN {1} ELSE {}]

\* the settings a job class can declare: each field names other fields
Graphs == {g \in [Fields -> SUBSET Fields] : \A f \in Fields : f \notin g[f]}

RECURSIVE Ancestors(_, _, _)
\* the fields reached from the set S along at most k more dependencies
Ancestors(g, S, k) ==
    IF k = 0 THEN S
    ELSE Ancestors(g, S \cup UNION {g[f] : f \in S}, k - 1)

\* the cycle check: only dependency paths of two or three fields
HasCycleShort(g) == \E f \in Fields : f \in Ancestors(g, g[f], 1)

\* the cycle check: a field is among its own direct or indirect dependencies
HasCycle(g) == \E f \in Fields : f \in Ancestors(g, g[f], MaxFields)

\* the unconfigured fields, whatever they depend on
ReadyUnordered(g, done) == Fields \ done

\* the unconfigured fields whose dependencies are all configured
Ready(g, done) == {f \in Fields \ done : g[f] \subseteq done}

\* the first ready field in declaration order
NextField(g, done) ==
    CHOOSE f \in Ready(g, done) : \A h \in Ready(g, done) : f <= h

\* configure() of field f: the field's own values, and the derived values it
\* writes into the fields it depends on (GroupingLevelConfigurator lines
\* 104-109, AtomTransmutationConfigurator lines 95-100)
Configure(g, d, f) ==
    [h \in Fields |-> IF h = f \/ h \in g[f] THEN Append(d[h], f) ELSE d[h]]

CfgStart ==
    /\ pcCfg = "declared"
    /\ configured = {}
    /\ configOrder = <<>>
    /\ derived = [f \in Fields |-> <<>>]

CfgInit ==
    /\ settings = EISFSettings
    /\ CfgStart

\* resolveAll begins: the cycle check
CycleCheck ==
    /\ pcCfg = "declared"
    /\ pcCfg' = IF HasCycle(settings) THEN "ConfigurationError" ELSE "resolving"
    /\ UNCHANGED <<jobVars, supVars, pollVars, nameVars, trackVars, settings, configured,
                   configOrder, derived>>

\* one step of the walk: the next field is configured
ResolveField ==
    /\ pcCfg = "resolving"
    /\ Ready(settings, configured) # {}
    /\ LET f == NextField(settings, configured)
       IN  /\ configured' = configured \cup {f}
           /\ configOrder' = Append(configOrder, f)
           /\ derived' = Configure(settings, derived, f)
    /\ UNCHANGED <<jobVars, supVars, pollVars, nameVars, trackVars, settings, pcCfg>>

\* the walk ends when no field is left
ResolveEnd ==
    /\ pcCfg = "resolving"
    /\ configured = Fields
    /\ pcCfg' = "resolved"
    /\ UNCHANGED <<jobVars, supVars, pollVars, nameVars, trackVars, settings, configured,
                   configOrder, derived>>

CfgNext == CycleCheck \/ ResolveField \/ ResolveEnd

(***************************************************************************)
(* JobController.update run by a thread (JobControllerPanel.py 102-174 and *)
(* 219-225) while the GUI thread runs kill_job                             *)
(***************************************************************************)
PollerIdle == [pc |-> "idle", pids |-> <<>>, keys |-> {}, jobs |-> {},
               held |-> "", info |-> NoEntry, wasKnown |-> FALSE]

PollerInit == poller = PollerIdle

\* what no statement of update assigns
ThreadFrame == <<jobVars, nameVars, trackVars, cfgVars, now, alive, terminating,
                 procStart, unlinkFails>>

\* lines 114-120: the process table, the glob and the keys of _runningJobs are
\* read once, before the loops
UpdateBegin ==
    /\ ~crashed
    /\ poller.pc = "idle"
    /\ LET keys == {n \in JobNames : runningJobs[n].known}
       IN  poller' = [PollerIdle EXCEPT !.pc = IF keys = {} THEN "load" ELSE "mark",
                                        !.pids = ProcessesInfo,
                                        !.keys = keys,
                                        !.jobs = Glob(tempDir)]
    /\ UNCHANGED <<ThreadFrame, tempDir, runningJobs, firstThreadRun, crashed>>

\* lines 120-132 for one key: self._runningJobs[job] is indexed after the keys
\* were listed; a key that is gone raises KeyError, which ends the thread
UpdateMark(n) ==
    /\ poller.pc = "mark"
    /\ n \in poller.keys
    /\ IF ~runningJobs[n].known
       THEN /\ poller' = [PollerIdle EXCEPT !.pc = "KeyError"]
            /\ crashed' = TRUE
            /\ UNCHANGED runningJobs
       ELSE /\ poller' = [poller EXCEPT !.keys = @ \ {n},
                                        !.pc = IF poller.keys = {n} THEN "load" ELSE "mark"]
            /\ runningJobs' = [runningJobs EXCEPT ![n] =
                                 IF @.state # "finished" /\ Key(n) \notin poller.jobs
                                 THEN [@ EXCEPT !.state = "finished"] ELSE @]
            /\ UNCHANGED crashed
    /\ UNCHANGED <<ThreadFrame, tempDir, firstThreadRun>>

\* lines 135-168 for one path of jobs: the file is opened as it is now and
\* compared with the process table read at line 114.  A snapshot found
\* aborted by the first update is handed to kill_job, whose own update runs
\* to its end before the loop goes on.
UpdateRead(n) ==
    /\ poller.pc = "load"
    /\ GlobPath(n) \in poller.jobs
    /\ IF n \notin Readable(tempDir)
       THEN /\ poller' = [poller EXCEPT !.jobs = @ \ {GlobPath(n)}]
            /\ UNCHANGED <<tempDir, runningJobs, firstThreadRun, crashed>>
       ELSE IF n \in Stale(tempDir, poller.pids, firstThreadRun)
       THEN \E r \in UpdateOutcomes(Forget(runningJobs, {n}),
                                    IF unlinkFails THEN tempDir
                                    ELSE Unlink(tempDir, {n}),
                                    firstThreadRun, ProcessesInfo) :
              /\ runningJobs' = r.view
              /\ tempDir' = r.dir
              /\ firstThreadRun' = r.first
              /\ crashed' = r.crashed
              /\ poller' = IF r.crashed THEN PollerIdle
                           ELSE [poller EXCEPT !.jobs = @ \ {GlobPath(n)}]
       ELSE /\ poller' = [poller EXCEPT !.pc = "store",
                                        !.jobs = @ \ {GlobPath(n)},
                                        !.held = n,
                                        !.info = Entry(tempDir[n], poller.pids),
                                        !.wasKnown = runningJobs[n].known]
            /\ UNCHANGED <<tempDir, runningJobs, firstThreadRun, crashed>>
    /\ UNCHANGED ThreadFrame

\* line 170: self._runningJobs[name] = info, with the info read at line 140
UpdateStore(n) ==
    /\ poller.pc = "store"
    /\ poller.held = n
    /\ runningJobs' = [runningJobs EXCEPT ![n] = poller.info]
    /\ poller' = [poller EXCEPT !.pc = "load", !.held = "", !.info = NoEntry,
                                !.wasKnown = FALSE]
    /\ UNCHANGED <<ThreadFrame, tempDir, firstThreadRun, crashed>>

\* lines 172-174
UpdateEnd ==
    /\ poller.pc = "load"
    /\ poller.jobs = {}
    /\ firstThreadRun' = FALSE
    /\ poller' = PollerIdle
    /\ UNCHANGED <<ThreadFrame, tempDir, runningJobs, crashed>>

\* the update of the controller thread, or of the thread msg_start_job
\* starts, one statement at a time
UpdateThread ==
    \/ UpdateBegin
    \/ \E n \in JobNames : UpdateMark(n)
    \/ \E n \in JobNames : UpdateRead(n)
    \/ \E n \in JobNames : UpdateStore(n)
    \/ UpdateEnd

\* no lock is taken by either thread: kill_job runs between any two of them
ThreadedNext ==
    \/ UpdateThread
    \/ \E n \in JobNames : KillJob(n)
    \/ SupEnv

ExtInit == NameInit /\ TrackInit /\ CfgInit /\ PollerInit

Init == JobInit /\ SupInit /\ ExtInit

Next == JobNext \/ Stop \/ WorkerLost

Spec == Init /\ [][Next]_vars

\* the supervisor and its environment, no job of this process running
SupervisorInit ==
    /\ JobInit
    /\ mode = "monoprocessor"
    /\ ~monitored
    /\ SupInit
    /\ ExtInit

SupervisorSpec == SupervisorInit /\ [][SupNext]_vars

\* the runs under the remote strategy.  The thread of IJob.run takes its next
\* step whenever it has one; nothing obliges a stop request or the loss of a
\* worker to happen.
RemoteInit ==
    /\ Init
    /\ mode = "remote"

RemoteNext == RunCommon \/ Remote \/ Stop \/ WorkerLost

RemoteLive ==
    /\ RemoteInit
    /\ [][RemoteNext]_vars
    /\ WF_vars(RunCommon \/ Remote)

\* the supervisor with its update run by a thread
ThreadedSpec == SupervisorInit /\ [][ThreadedNext]_vars

\* the jobs of a host taking and releasing their names
NamingInit == SupervisorInit

NamingSpec == NamingInit /\ [][NameNext]_vars

\* a Status object called in any order, the clock moving between the calls
TrackerSpecInit == SupervisorInit

TrackerSpec == TrackerSpecInit /\ [][TrackNext]_vars

\* the resolution of the settings of any job class
ConfigInit ==
    /\ JobInit
    /\ mode = "monoprocessor"
    /\ ~monitored
    /\ SupInit
    /\ NameInit
    /\ TrackInit
    /\ PollerInit
    /\ settings \in Graphs
    /\ CfgStart

ConfigSpec == ConfigInit /\ [][CfgNext]_vars

(***************************************************************************)
(* Properties of the supervisor                                            *)
(***************************************************************************)
\* C5: a poll that returns keeps the recorded state of a readable snapshot
\* with pid P and start time T exactly when P is in the process table with
\* start time T' <= T; when P is not in the table, or is with T' > T, the job
\* is never reported with another state than 'aborted'.  The first poll drops
\* the jobs whose state is then 'aborted'; every later poll lists them.
C5_PollClassifies ==
    [][(Poll /\ ~crashed') =>
        \A n \in JobNames :
          (tempDir[n].exists /\ tempDir[n].readable) =>
            IF /\ tempDir[n].pid \in alive
               /\ ProcessesInfo[tempDir[n].pid] <= tempDir[n].start
            THEN /\ runningJobs'[n].known =>
                      runningJobs'[n] = [known |-> TRUE, pid |-> tempDir[n].pid,
                                         state |-> tempDir[n].state]
                 /\ (~firstThreadRun \/ tempDir[n].state # "aborted") =>
                      runningJobs'[n].known
            ELSE /\ runningJobs'[n].known => runningJobs'[n].state = "aborted"
                 /\ ~firstThreadRun => runningJobs'[n].known]_vars

\* a snapshot that says running, whose pid is held by a process started in a
\* later second than the job, is listed as aborted
C5_Witness ==
    \E n \in JobNames :
        /\ tempDir[n].exists
        /\ tempDir[n].readable
        /\ tempDir[n].state = "running"
        /\ tempDir[n].pid \in alive
        /\ procStart[tempDir[n].pid] \div TicksPerSecond > tempDir[n].start
        /\ runningJobs[n].known
        /\ runningJobs[n].state = "aborted"
        /\ ~crashed

\* C13: a poll marks finished (lines 128-130: state, progress 100 and eta
\* 'N/A' together) every job it tracked as not finished that has no snapshot
\* any more, and after a poll no tracked job whose snapshot is present and
\* readable is reported as finished.
C13_FinishedIffGone ==
    [][(Poll /\ ~crashed') =>
        \A n \in JobNames :
          runningJobs[n].known =>
            /\ (runningJobs[n].state # "finished" /\ ~tempDir[n].exists) =>
                  /\ runningJobs'[n].known
                  /\ runningJobs'[n].state = "finished"
            /\ (tempDir[n].exists /\ tempDir[n].readable) =>
                  ~(runningJobs'[n].known /\ runningJobs'[n].state = "finished")]_vars

\* a job whose snapshot is gone is listed as finished, next to a job whose
\* snapshot is there and which is listed as running
C13_Witness ==
    /\ ~crashed
    /\ \E n, m \in JobNames :
         /\ runningJobs[n].known
         /\ runningJobs[n].state = "finished"
         /\ ~tempDir[n].exists
         /\ runningJobs[m].known
         /\ runningJobs[m].state = "running"
         /\ tempDir[m].exists
         /\ tempDir[m].readable

\* a kill_job call on the tracked job n that returns
KillReturns(n) == KillJob(n) /\ ~crashed'

\* the recorded pid was sent the signal: its process is terminating or gone
SignalSent(n) ==
    runningJobs[n].pid \in alive =>
        \/ runningJobs[n].pid \in terminating'
        \/ runningJobs[n].pid \notin alive'

Terminal == pc \in {"done", "raised"}

CombinedExactly(upTo) ==
    \A j \in Indices : combineCount[j] = (IF j <= upTo THEN 1 ELSE 0)

SteppedExactly(upTo) ==
    \A j \in Indices : stepCount[j] = (IF j <= upTo THEN 1 ELSE 0)

\* C1: in a serial run in which no stop is requested and nothing raises,
\* run_step is invoked once per index in increasing order, combine once per
\* index with that step's result, combine(i) after run_step(i) and before
\* run_step(i+1); when the run is done all of 0..N-1 went through both.
C1_SerialOrder ==
    (mode = "monoprocessor" /\ raisedIn = "none" /\ ~status.stopped) =>
        /\ lastCall[1] = "none" => SteppedExactly(0 - 1) /\ CombinedExactly(0 - 1)
        /\ lastCall[1] = "run_step" =>
              /\ SteppedExactly(lastCall[2])
              /\ CombinedExactly(lastCall[2] - 1)
              /\ cur = <<lastCall[2], StepValue(lastCall[2])>>
        /\ lastCall[1] = "combine" =>
              /\ SteppedExactly(lastCall[2])
              /\ CombinedExactly(lastCall[2])
              /\ outputData = SerialOutput(lastCall[2] + 1)
              /\ grid = SerialGrid(lastCall[2] + 1)
        /\ pc = "done" => lastCall = <<"combine", numberOfSteps - 1>>

C1_Witness ==
    /\ mode = "monoprocessor"
    /\ pc = "done"
    /\ ~status.stopped
    /\ numberOfSteps >= 3
    /\ lastCall = <<"combine", numberOfSteps - 1>>

\* C2 as stated: a monitored run that entered the serial runner ends finished
\* iff no run_step and no combine raised.
C2_Original ==
    (mode = "monoprocessor" /\ monitored /\ Terminal /\ lastCall[1] # "none") =>
        (status.finished <=> raisedIn \notin {"run_step", "combine"})

\* C2 amended: a monitored serial run ends finished iff none of setup,
\* initialize, run_step, combine and finalize raised and initialize left a
\* numberOfSteps > 0; before the run has ended it is not finished.
C2_FinishedIffNothingRaised ==
    (mode = "monoprocessor" /\ monitored) =>
        /\ Terminal => (status.finished <=> raisedIn = "none")
        /\ status.finished => pc = "done"

C2_Witness ==
    /\ mode = "monoprocessor"
    /\ monitored
    /\ pc = "raised"
    /\ raisedIn = "finalize"
    /\ ~status.finished
    /\ CombinedExactly(numberOfSteps - 1)

\* C3: when initialize, run_step, combine or finalize raised in a monitored
\* run, then once the JobError has left IJob.run the status record is
\* 'aborted' with the traceback, the snapshot written by update_status holds
\* that record, and the job is not finished; for every numberOfSteps.
C3_AbortPersisted ==
    (monitored /\ pc = "raised"
       /\ raisedIn \in {"initialize", "run_step", "combine", "finalize"}) =>
        /\ jstate.state = "aborted"
        /\ jstate.traceback
        /\ tmpFile.exists
        /\ tmpFile.state = "aborted"
        /\ tmpFile.traceback
        /\ ~status.finished

\* C4: a local-pool or remote-pool run without stop or failure has, once the
\* runner is through, invoked run_step and combine exactly once per index of
\* 0..N-1, and its combined output (running sum and index-keyed store) is
\* the serial runner's output on N steps, whatever the retrieval order.
C4_ParallelEqualsSerial ==
    (mode \in {"multiprocessor", "remote"} /\ raisedIn = "none" /\ ~stopSeen
       /\ pc \in {"finalize", "finish", "done"}) =>
        /\ SteppedExactly(numberOfSteps - 1)
        /\ CombinedExactly(numberOfSteps - 1)
        /\ grid = SerialGrid(numberOfSteps)
        /\ outputData = SerialOutput(numberOfSteps)

C4_Witness ==
    /\ mode = "multiprocessor"
    /\ pc = "done"
    /\ ~stopSeen
    /\ numberOfSteps >= 3
    /\ lastCall = <<"combine", 0>>
    /\ grid = SerialGrid(numberOfSteps)

\* C6: once the serial runner has observed the stop flag after completing
\* step k, cleanup has run, no run_step and no combine is invoked for an
\* index > k, and currentStep stays at the number of steps completed before
\* the stop was observed (k, or k+1 counting step k itself).
C6_StopFreezes ==
    (mode = "monoprocessor" /\ stopSeen) =>
        /\ cleanupCalls = 1
        /\ \A j \in Indices : j > stopSeenAt => stepCount[j] = 0 /\ combineCount[j] = 0
        /\ status.currentStep \in {stopSeenAt, stopSeenAt + 1}

\* C7: once the serial runner has observed a stop request, finalize is not
\* invoked and the job does not go on to finished.
C7_StopSkipsFinalize ==
    (mode = "monoprocessor" /\ stopSeen) =>
        /\ finalizeCalls = 0
        /\ ~status.finished

\* C8: is_finished and is_stopped are never both true, and a job whose state
\* was set to 'aborted' is never finished.
C8_OutcomesExclusive ==
    monitored =>
        /\ ~(status.finished /\ status.stopped)
        /\ ~(status.finished /\ jstate.state = "aborted")

\* C9: when initialize returned and numberOfSteps is unset or <= 0, the run
\* only goes on to raise JobError: no run_step, no combine, no finalize, never
\* finished, and a monitored job's state ends 'aborted'.
C9_InvalidStepsNeverRun ==
    (pc \notin {"idle", "initialize"} /\ raisedIn \notin {"setup", "initialize"}
       /\ (~hasSteps \/ numberOfSteps <= 0)) =>
        /\ pc \in {"start_status", "check_steps", "except", "raised"}
        /\ SteppedExactly(0 - 1)
        /\ CombinedExactly(0 - 1)
        /\ finalizeCalls = 0
        /\ ~status.finished
        /\ (pc = "raised" /\ monitored) => jstate.state = "aborted"

C9_Witness ==
    /\ pc = "raised"
    /\ monitored
    /\ hasSteps
    /\ numberOfSteps = 0
    /\ raisedIn = "steps"
    /\ jstate.state = "aborted"

\* the half of C14 that holds: currentStep never decreases
StepMonotone == [][monitored => status'.currentStep >= status.currentStep]_vars

\* C14: in every state of a monitored run, once start has fixed a
\* totalSteps > 0, currentStep <= totalSteps (currentStep never decreasing
\* is StepMonotone).
C14_StepBounded ==
    (monitored /\ status.nStepsSet /\ status.nSteps > 0) =>
        status.currentStep <= status.nSteps

(***************************************************************************)
(* Properties of the remote strategy                                       *)
(***************************************************************************)
RemoteEnded ==
    \/ /\ pc = "done"
       /\ CombinedExactly(numberOfSteps - 1)
       /\ monitored => status.finished
    \/ /\ pc = "raised"
       /\ monitored => jstate.state = "aborted"

C11_NameNotRegistered == lastName \notin registeredThen


(***************************************************************************)
(* Properties of the Status object                                         *)
(***************************************************************************)
\* C15: the stop flag is one-way: once stop() has been called, is_stopped()
\* is true in every later state, whatever start, update, finish or stop calls
\* follow.
C15_StopIsOneWay == stopCalled => trk.s.stopped

\* stop() was called, then finish(), then an update() that was counted
C15_Witness ==
    /\ stopCalled
    /\ trk.s.finished
    /\ lastOp.op = "update"
    /\ trk.s.currentStep > 0

\* the seconds a (days, hours, minutes, seconds) display stands for
ShownSeconds(d) == (((d[1] * 24 + d[2]) * 60) + d[3]) * 60 + d[4]

\* C18: whenever update() recomputes eta with the number of steps fixed, the
\* eta it leaves is the median of the durations of the counted steps times
\* the number of remaining steps (nSteps - currentStep), to the second, and
\* is not negative.
C18_EtaIsMedianTimesRemaining ==
    (lastOp.op = "update" /\ lastOp.refreshed /\ trk.s.nStepsSet) =>
        /\ trk.eta # <<>>
        /\ EtaSeconds(trk) >= 0
        /\ ShownSeconds(trk.eta) = EtaSeconds(trk)

\* the step of update(force) between two states
UpdateCall(force) == TrackerUpdate(force) /\ lastOp'.force = force

\* C19: an update() call recomputes elapsed/eta and calls update_status only
\* if it is forced, or the incremented currentStep is a multiple of the
\* sampling step, or more than 10 seconds have passed since the last
\* recompute; every other update() call leaves eta and elapsed unchanged and
\* does not call update_status.
C19_UpdateSamples ==
    [][(/\ lastOp'.op = "update"
        /\ ~(/\ trk.s.updateStep # 0
             /\ (trk.s.currentStep + 1) % trk.s.updateStep = 0)
        /\ ~(clock - trk.lastRefresh > 10)
        /\ UpdateCall(FALSE)) =>
          /\ trk'.eta = trk.eta
          /\ trk'.elapsed = trk.elapsed
          /\ trk'.lastRefresh = trk.lastRefresh
          /\ ~lastOp'.refreshed
          /\ ~lastOp'.published]_vars

\* an unforced update() off the sampling boundary, less than 10 seconds after
\* a refresh that computed elapsed and eta: it was counted and nothing else
C19_Witness ==
    /\ lastOp.op = "update"
    /\ ~lastOp.force
    /\ ~lastOp.refreshed
    /\ trk.s.updateStep > 1
    /\ trk.s.currentStep % trk.s.updateStep # 0
    /\ trk.eta # <<>>
    /\ clock - trk.lastRefresh <= 10

(***************************************************************************)
(* Properties of the resolution of the settings                            *)
(***************************************************************************)
\* the settings g can be put in an order in which every field comes after
\* the fields it depends on
HasTopologicalOrder(g) ==
    \E r \in [Fields -> Fields] :
        /\ \A f, h \in Fields : f # h => r[f] # r[h]
        /\ \A f \in Fields : \A d \in g[f] : r[d] < r[f]

\* the fields configured before the i-th one
ConfiguredBefore(i) == {configOrder[j] : j \in 1..(i - 1)}

\* C16: when the settings have a topological order, the resolution is not
\* rejected, configures no field twice and no field before all the fields
\* it declares as dependencies, does not stop before every field is
\* configured, and ends with every field configured exactly once; this also
\* when a field is declared before one of its dependencies.
C16_ResolvesInOrder ==
    HasTopologicalOrder(settings) =>
        /\ pcCfg # "ConfigurationError"
        /\ \A i, j \in DOMAIN configOrder :
              i # j => configOrder[i] # configOrder[j]
        /\ \A i \in DOMAIN configOrder :
              settings[configOrder[i]] \subseteq ConfiguredBefore(i)
        /\ (pcCfg = "resolving" /\ configured # Fields) => ENABLED ResolveField
        /\ pcCfg = "resolved" =>
              /\ Len(configOrder) = MaxFields
              /\ {configOrder[i] : i \in DOMAIN configOrder} = Fields

\* the settings of ElasticIncoherentStructureFactor resolved: atom_selection,
\* then atom_transmutation, then grouping_level, which is declared second
C16_Witness ==
    /\ settings = EISFSettings
    /\ pcCfg = "resolved"
    /\ \E i, j \in DOMAIN configOrder :
          /\ i < j
          /\ configOrder[i] = 3
          /\ configOrder[j] = 2
    /\ derived[1][1] = 1

\* the fields p[1], ..., p[k] are distinct and each depends on the next, the
\* last one on the first
CycleOfLength(g, k) ==
    \E p \in [1..k -> Fields] :
        /\ \A i, j \in 1..k : i # j => p[i] # p[j]
        /\ \A i \in 1..k : p[(i % k) + 1] \in g[p[i]]

\* C17: settings with a dependency cycle of any length >= 2 are rejected
\* with a ConfigurationError before any field is resolved: no configure()
\* has run and no value is written.
C17_CycleRejectedFirst ==
    (\E k \in 2..MaxFields : CycleOfLength(settings, k)) =>
        /\ pcCfg \in {"declared", "ConfigurationError"}
        /\ configured = {}
        /\ configOrder = <<>>
        /\ \A f \in Fields : derived[f] = <<>>

\* settings whose only cycles go through every field, rejected
C17_Witness ==
    /\ pcCfg = "ConfigurationError"
    /\ CycleOfLength(settings, MaxFields)
    /\ \A k \in 2..(MaxFields - 1) : ~CycleOfLength(settings, k)

(***************************************************************************)
(* The polls of the supervisor                                             *)
(***************************************************************************)
\* C20: every poll of the supervisor (JobController.update) returns without
\* raising, whatever the snapshot directory holds: unreadable snapshots,
\* snapshots whose pid is dead or recycled and, on the first poll, stale
\* snapshots that cannot be deleted.
C20_PollNeverRaises == [][Poll => ~crashed']_vars

(***************************************************************************)
(* Properties of Status.start, update and stop                             *)
(***************************************************************************)
\* the step of start(n, rate) between two states
StartCall(n, rate) == TrackerStart(n, rate) /\ lastOp'.op = "start"

\* C21: start fixes the number of steps once: after the first start(n, rate)
\* any later start(m, rate') leaves the number of steps and the sampling step
\* unchanged and does not call start_status again.
C21_StartOnce ==
    [][(/\ lastOp'.op = "start"
        /\ trk.s.nStepsSet
        /\ \E m \in TrackerSteps, rate \in Rates : StartCall(m, rate)) =>
          /\ trk'.s.nSteps = trk.s.nSteps
          /\ trk'.s.updateStep = trk.s.updateStep
          /\ trk' = trk
          /\ ~lastOp'.published]_vars

\* a start() that did not call start_status: the object had been started
\* with 3 steps and no rate, and has counted updates since
C21_Witness ==
    /\ lastOp.op = "start"
    /\ ~lastOp.published
    /\ trk.s.nSteps = 3
    /\ trk.s.updateStep = 1
    /\ trk.s.currentStep > 0

\* C22: every update() call increments currentStep by exactly one, for every
\* object started with a number of steps > 0 and any rate, start(n, rate=0.1)
\* with n < 10 included.
C22_UpdateCounts ==
    [][\A force \in BOOLEAN :
         (/\ lastOp'.op = "update"
          /\ trk.s.nStepsSet
          /\ trk.s.nSteps > 0
          /\ UpdateCall(force)) =>
            trk'.s.currentStep = trk.s.currentStep + 1]_vars

\* C23: after stop(), update() calls leave eta alone: eta keeps the 'N/A' that
\* stop() set through any number of later update() calls, forced or not.
C23_EtaStaysAfterStop ==
    (stopCalled /\ lastOp.op = "update") =>
        /\ trk.s.eta = "N/A"
        /\ trk.eta = <<>>

(***************************************************************************)
(* Properties of the runners: the worker pool, stop requests, progress     *)
(***************************************************************************)
\* the run went as far as the runner
RunnerEntered == raisedIn \notin {"setup", "initialize", "start", "steps"}

\* the indices that went through run_step, through combine
Stepped == {j \in Indices : stepCount[j] > 0}
Combined == {j \in Indices : combineCount[j] > 0}

\* C30: when combine raises or the retrieval of a worker's result fails in
\* the local-pool runner, master.shutdown has been called by the time the
\* failure leaves IJob.run as a JobError.
C30_ShutdownOnFailure ==
    (/\ mode = "multiprocessor"
     /\ pc = "raised"
     /\ raisedIn \in {"run_step", "combine"}) =>
        shutdownCalls >= 1

\* C24: the local-pool runner shuts the pool down exactly once, and only
\* after every step was combined or a stop was observed; once a stop was
\* observed no further result is taken and no further combine is applied.
C24_PoolShutDownOnce ==
    mode = "multiprocessor" =>
        /\ shutdownCalls <= 1
        /\ shutdownCalls = 1 =>
              \/ stopSeen
              \/ \A j \in Indices : j < numberOfSteps => combineCount[j] = 1
        /\ (Terminal /\ RunnerEntered) => shutdownCalls = 1
        /\ stopSeen =>
              /\ Cardinality(Stepped) = stopSeenAt + 1
              /\ Cardinality(Combined) = stopSeenAt + 1
              /\ pending = RequestTasks(numberOfSteps) \ Stepped

\* C25: under each of the three runners, at most one more combine is applied
\* after the stop flag is set before the runner stops and runs cleanup.
C25_StopWithinOneCombine ==
    /\ combinesSinceStop # "several"
    /\ stopSeen => cleanupCalls = 1

\* C27: whenever a monitored job is finished, under any runner and for any
\* numberOfSteps > 0, currentStep equals the number of steps of its Status.
C27_FinishedAtFullCount ==
    (monitored /\ status.finished /\ numberOfSteps > 0) =>
        status.currentStep = status.nSteps

(***************************************************************************)
(* The snapshots the supervisor deletes and the processes it signals       *)
(***************************************************************************)
\* a step of the supervisor: a poll, or a kill_job with the update it ends on
SupervisorStep == Poll \/ \E m \in JobNames : KillJob(m)

\* the step deletes the snapshot of n
Deletes(n) == tempDir[n].exists /\ ~tempDir'[n].exists

\* C26 as stated: the supervisor deletes the snapshot of a job only in a
\* kill_job of that job; no poll, the first included, deletes a snapshot.
C26_Original ==
    [][\A n \in JobNames :
         (SupervisorStep /\ Deletes(n)) => (KillJob(n) /\ ~Poll)]_vars

\* C26 amended: the supervisor deletes the snapshot of a job only in a
\* kill_job of that job or, as long as no update has run to its end, when
\* the snapshot is readable and classified aborted; a poll after the first
\* leaves the directory as it is.
C26_DeletesKilledOrStale ==
    [][/\ \A n \in JobNames :
            (SupervisorStep /\ Deletes(n)) =>
                \/ KillJob(n)
                \/ /\ firstThreadRun
                   /\ n \in Stale(tempDir, ProcessesInfo', TRUE)
       /\ (Poll /\ ~firstThreadRun) => tempDir' = tempDir]_vars

\* a poll after the first has listed as aborted a job whose process is gone,
\* and its snapshot is still there
C26_Witness ==
    \E n \in JobNames :
        /\ ~firstThreadRun
        /\ tempDir[n].exists
        /\ tempDir[n].readable
        /\ JobPid(n) \notin alive
        /\ runningJobs[n].known
        /\ runningJobs[n].state = "aborted"

\* the step sends SIGTERM to the process holding pid p
Signals(p) == p \in alive /\ (p \in terminating' \/ p \notin alive')

\* the process that holds the pid in the snapshot of n started in a later
\* second than the job: it is not the process that wrote the snapshot
Recycled(n) ==
    /\ tempDir[n].exists
    /\ tempDir[n].pid \in alive
    /\ procStart[tempDir[n].pid] \div TicksPerSecond > tempDir[n].start

\* C28: kill_job sends the termination signal to a pid only if the pid is
\* then held by the process that wrote the snapshot: not for a job listed as
\* aborted or finished, and not when the process holding the pid started
\* after the job did (a pid recycled since the last poll).
C28_KillSignalsOwnProcess ==
    [][\A n \in JobNames :
         (KillJob(n) /\ Signals(runningJobs[n].pid)
            /\ runningJobs[n].pid \notin terminating) =>
             /\ runningJobs[n].state \notin {"aborted", "finished"}
             /\ ~Recycled(n)]_vars

\* C29: when kill_job runs between two statements of an update run by a
\* thread, the update does not raise on the entry kill_job removed, and it
\* does not put back, from a snapshot it read before, an entry that was
\* removed since
C29_KillDuringPoll ==
    [][/\ poller'.pc # "KeyError"
       /\ \A n \in JobNames :
            (UpdateStore(n) /\ poller.wasKnown) => runningJobs[n].known]_vars

====
